---- MODULE Spec2Model ----
(***************************************************************************)
(* Model of backend/src/routes/simulations.rs: the three axum handlers     *)
(* list_simulations, get_simulation and run_simulation, and the numeric    *)
(* kernel calculate_interference_pattern.                                  *)
(*                                                                         *)
(* Numbers.  An f64 is modelled in fixed point.  Angles, screen positions  *)
(* and intensities are integers counting units of 1/ONE (1e-6).  A         *)
(* wavelength in nanometres is an integer number of nm; a slit separation  *)
(* in millimetres is an integer number of hundredths of a mm (the step of  *)
(* its slider); a length in metres is an integer number of nm.  Rounding   *)
(* is toward zero, which like IEEE round-to-nearest commutes with          *)
(* negation.  The result of a floating-point division or of cos is an      *)
(* F64 record, so that the non-finite outcomes (x/0, 0/0, cos of infinity) *)
(* are values of the model.                                                *)
(***************************************************************************)
EXTENDS Integers, Sequences, FiniteSets, TLC

VARIABLES
    pending,    \* the request routed to its handler and not yet answered
    log         \* the requests answered so far, each with its response and the
                \* calls of calculate_interference_pattern its handler made

vars == <<pending, log>>

----------------------------------------------------------------------------
(* f64 *)

\* 1.0 in fixed point
ONE == 1000000

Abs(a) == IF a < 0 THEN -a ELSE a
Sgn(a) == IF a < 0 THEN -1 ELSE IF a > 0 THEN 1 ELSE 0

\* a / b rounded toward zero, b # 0
TruncDiv(a, b) == Sgn(a) * Sgn(b) * (Abs(a) \div Abs(b))

\* a * b / c rounded toward zero without forming a * b, c # 0
MulDiv(a, b, c) ==
    Sgn(a) * Sgn(b) * Sgn(c) *
        ((Abs(a) \div Abs(c)) * Abs(b) + ((Abs(a) % Abs(c)) * Abs(b)) \div Abs(c))

\* 1000 * 1000 = ONE: a product is formed from the halves of its factors
HALF == 1000

Fin(v) == [cls |-> "finite", v |-> v]
Inf == [cls |-> "infinite", v |-> 0]
NaN == [cls |-> "nan", v |-> 0]

is_finite(f) == f.cls = "finite"

\* product of two fixed-point numbers
FMul(a, b) ==
    LET aH == Abs(a) \div HALF
        aL == Abs(a) % HALF
        bH == Abs(b) \div HALF
        bL == Abs(b) % HALF
    IN  Sgn(a) * Sgn(b) *
            (aH * bH + (aH * bL + aL * bH + (aL * bL) \div HALF) \div HALF)

\* quotient of two finite numbers as an f64: x/0 is infinite, 0/0 is NaN
FDiv(a, b) ==
    IF b = 0 THEN (IF a = 0 THEN NaN ELSE Inf) ELSE Fin(MulDiv(ONE, a, b))

\* std::f64::consts::PI
PI == 3141593

\* f64::atan for |x| < 1: x - x^3/3 + x^5/5 - x^7/7, odd
atan(x) ==
    LET a == Abs(x)
        a2 == FMul(a, a)
        a3 == FMul(a2, a)
        a5 == FMul(a3, a2)
        a7 == FMul(a5, a2)
    IN  Sgn(x) * (a - TruncDiv(a3, 3) + TruncDiv(a5, 5) - TruncDiv(a7, 7))

\* f64::sin for |t| < 1: t - t^3/6 + t^5/120, odd
sin(t) ==
    LET a == Abs(t)
        a2 == FMul(a, a)
        a3 == FMul(a2, a)
        a5 == FMul(a3, a2)
    IN  Sgn(t) * (a - TruncDiv(a3, 6) + TruncDiv(a5, 120))

\* cos on [0, PI/2]: 1 - y^2/2 + y^4/24 - y^6/720 + y^8/40320 - y^10/10! + y^12/12!
cos_series(y) ==
    LET y2 == FMul(y, y)
        y4 == FMul(y2, y2)
        y6 == FMul(y4, y2)
        y8 == FMul(y4, y4)
        y10 == FMul(y8, y2)
        y12 == FMul(y10, y2)
    IN  ONE - TruncDiv(y2, 2) + TruncDiv(y4, 24) - TruncDiv(y6, 720)
            + TruncDiv(y8, 40320) - TruncDiv(y10, 3628800)
            + TruncDiv(y12, 479001600)

\* f64::cos: even, period 2 PI, cos(PI - y) = -cos(y); NaN off the finite numbers
cos(p) ==
    IF ~is_finite(p) THEN NaN
    ELSE LET r == Abs(p.v) % (2 * PI)
             y == IF r > PI THEN 2 * PI - r ELSE r
         IN  IF 2 * y > PI THEN Fin(-cos_series(PI - y)) ELSE Fin(cos_series(y))

\* f64::powi(2)
powi2(f) == IF f.cls = "nan" THEN NaN ELSE IF f.cls = "infinite" THEN Inf ELSE Fin(FMul(f.v, f.v))

\* e^-1
INV_E == 367879

\* e^-n for a natural number n
RECURSIVE exp_neg_int(_)
exp_neg_int(n) == IF n = 0 THEN ONE ELSE FMul(INV_E, exp_neg_int(n - 1))

\* e^-f for 0 <= f < 1: the series 1 - f + f^2/2 - ... - f^9/9!
exp_neg_frac(f) ==
    LET f2 == FMul(f, f)
        f3 == FMul(f2, f)
        f4 == FMul(f3, f)
        f5 == FMul(f4, f)
        f6 == FMul(f5, f)
        f7 == FMul(f6, f)
        f8 == FMul(f7, f)
        f9 == FMul(f8, f)
    IN  ONE - f + TruncDiv(f2, 2) - TruncDiv(f3, 6) + TruncDiv(f4, 24)
            - TruncDiv(f5, 120) + TruncDiv(f6, 720) - TruncDiv(f7, 5040)
            + TruncDiv(f8, 40320) - TruncDiv(f9, 362880)

\* f64::exp for u <= 0
exp(u) == FMul(exp_neg_int((-u) \div ONE), exp_neg_frac((-u) % ONE))

----------------------------------------------------------------------------
(* calculate_interference_pattern *)

\* nanometres in one hundredth of a millimetre
NM_PER_UNIT == 10 * HALF

\* let num_points = 200
num_points == 200

\* let screen_distance = 1.0
screen_distance == ONE

\* the literals 0.001 and 0.05
MILLI == ONE \div 1000
BAND_CENTER == ONE \div 20

\* screen_x centred between samples 99 and 100: (i - (num_points - 1) / 2) * 0.001
screen_x_midway(i) == ((2 * i - (num_points - 1)) * MILLI) \div 2

\* let x = (i as f64 - num_points as f64 / 2.0) * 0.001
screen_x(i) == (i - num_points \div 2) * MILLI

\* the closure of the map: the intensity of sample i, an F64
intensity(i, wavelength_m, slit_separation_m, observer_mode) ==
    LET x == screen_x(i)
        theta == atan(MulDiv(ONE, x, screen_distance))
    IN  IF observer_mode
        THEN LET t1 == theta + BAND_CENTER
                 t2 == theta - BAND_CENTER
                 band1 == exp(MulDiv(ONE, -FMul(t1, t1), MILLI))
                 band2 == exp(MulDiv(ONE, -FMul(t2, t2), MILLI))
             IN  Fin(FMul(band1 + band2, ONE \div 2))
        ELSE LET phase == FDiv(FMul(FMul(PI, slit_separation_m), sin(theta)),
                               wavelength_m)
             IN  powi2(cos(phase))

\* Vec<f64> of the samples 0 .. num_points - 1 (element i + 1 is sample i).
\* A metre is counted in nm: wavelength_nm * 1e-9 keeps the count, and
\* slit_separation_mm (hundredths of a mm) * 1e-3 is 10^4 nm per unit.
calculate_interference_pattern(wavelength_nm, slit_separation_mm, observer_mode) ==
    LET wavelength_m == wavelength_nm
        slit_separation_m == slit_separation_mm * NM_PER_UNIT
    IN  [k \in 1..num_points |->
            intensity(k - 1, wavelength_m, slit_separation_m, observer_mode)]

----------------------------------------------------------------------------
(* serde_json::Value, Option, Result *)

JNull == [t |-> "null", n |-> 0, b |-> FALSE]
JBool(b) == [t |-> "bool", n |-> 0, b |-> b]
JNumber(n) == [t |-> "number", n |-> n, b |-> FALSE]
\* the contents of strings, arrays and objects are never read
JString == [t |-> "string", n |-> 0, b |-> FALSE]
JArray == [t |-> "array", n |-> 0, b |-> FALSE]
JObject == [t |-> "object", n |-> 0, b |-> FALSE]

Some(v) == [some |-> TRUE, v |-> v]
None == [some |-> FALSE, v |-> 0]

\* serde_json::Map::get
get(map, key) == IF key \in DOMAIN map THEN Some(map[key]) ELSE None

\* Value::as_f64: Some for a JSON number, None for every other type
as_f64(v) == IF v.t = "number" THEN Some(v.n) ELSE None

\* Value::as_bool: Some for a JSON boolean, None for every other type
as_bool(v) == IF v.t = "bool" THEN Some(v.b) ELSE None

\* Option::and_then(|v| v.as_f64()) and Option::and_then(|v| v.as_bool())
and_then_as_f64(o) == IF o.some THEN as_f64(o.v) ELSE None
and_then_as_bool(o) == IF o.some THEN as_bool(o.v) ELSE None
unwrap_or(o, d) == IF o.some THEN o.v ELSE d

\* serde_json's Value from an f64: a number, or null when it is not finite
json_f64(f) == IF is_finite(f) THEN JNumber(f.v) ELSE JNull

Ok(body) == [status |-> "OK", body |-> body]
Err(status) == [status |-> status, body |-> <<>>]
NOT_FOUND == "NOT_FOUND"

----------------------------------------------------------------------------
(* list_simulations *)

SimulationInfo(id, name, difficulty, estimated_time_minutes) ==
    [id |-> id, name |-> name, difficulty |-> difficulty,
     estimated_time_minutes |-> estimated_time_minutes]

\* list_simulations with the first entry pasted over the second
list_simulations_pasted ==
    [response |->
        Ok(<< SimulationInfo("double-slit", "Double-Slit Experiment", "beginner", 15),
              SimulationInfo("double-slit", "Quantum Tunneling", "intermediate", 20),
              SimulationInfo("hydrogen-atom", "Hydrogen Atom Orbitals", "intermediate", 25) >>),
     calls |-> << >>]

\* Json(vec![...]); no calls of the kernel
list_simulations ==
    [response |->
        Ok(<< SimulationInfo("double-slit", "Double-Slit Experiment", "beginner", 15),
              SimulationInfo("quantum-tunneling", "Quantum Tunneling", "intermediate", 20),
              SimulationInfo("hydrogen-atom", "Hydrogen Atom Orbitals", "intermediate", 25) >>),
     calls |-> << >>]

----------------------------------------------------------------------------
(* get_simulation *)

\* Slit separations count hundredths of a mm: 0.01 is 1, 0.1 is 10, 1.0 is 100.
SimulationParameter(name, param_type, min, max, default, step) ==
    [name |-> name, param_type |-> param_type, min |-> min, max |-> max,
     default |-> default, step |-> step]

\* parameters: vec![...] of the double-slit details
double_slit_parameters ==
    << SimulationParameter("wavelength", "slider", Some(400), Some(700), 550, Some(10)),
       SimulationParameter("slit_separation", "slider", Some(1), Some(100), 10, Some(1)),
       SimulationParameter("observer_mode", "toggle", None, None, 0, None) >>

get_simulation(id) ==
    [response |->
        IF id = "double-slit"
        THEN Ok([id |-> "double-slit", name |-> "Double-Slit Experiment",
                 parameters |-> double_slit_parameters])
        ELSE Err(NOT_FOUND),
     calls |-> << >>]

----------------------------------------------------------------------------
(* run_simulation *)

\* resolve_wavelength with a default of 500.0
resolve_wavelength_500(parameters) ==
    unwrap_or(and_then_as_f64(get(parameters, "wavelength")), 500)

\* params.parameters.get("wavelength").and_then(|v| v.as_f64()).unwrap_or(550.0)
resolve_wavelength(parameters) ==
    unwrap_or(and_then_as_f64(get(parameters, "wavelength")), 550)

\* resolve_slit_separation with a default of 1.0
resolve_slit_separation_1mm(parameters) ==
    unwrap_or(and_then_as_f64(get(parameters, "slit_separation")), 100)

\* params.parameters.get("slit_separation").and_then(|v| v.as_f64()).unwrap_or(0.1)
resolve_slit_separation(parameters) ==
    unwrap_or(and_then_as_f64(get(parameters, "slit_separation")), 10)

\* resolve_observer_mode with a default kept across requests: a toggle that
\* every answered request flips
resolve_observer_mode_kept(parameters) ==
    unwrap_or(and_then_as_bool(get(parameters, "observer_mode")), Len(log) % 2 = 1)

\* params.parameters.get("observer_mode").and_then(|v| v.as_bool()).unwrap_or(false)
resolve_observer_mode(parameters) ==
    unwrap_or(and_then_as_bool(get(parameters, "observer_mode")), FALSE)

\* result_data with the two sliders echoed under each other's key
result_data_swapped(pattern, wavelength, slit_separation, observer_mode) ==
    [pattern |-> [k \in DOMAIN pattern |-> json_f64(pattern[k])],
     wavelength |-> json_f64(Fin(slit_separation)),
     slit_separation |-> json_f64(Fin(wavelength)),
     observer_mode |-> JBool(observer_mode)]

\* serde_json::json!({"pattern": .., "wavelength": .., "slit_separation": .., "observer_mode": ..})
result_data(pattern, wavelength, slit_separation, observer_mode) ==
    [pattern |-> [k \in DOMAIN pattern |-> json_f64(pattern[k])],
     wavelength |-> json_f64(Fin(wavelength)),
     slit_separation |-> json_f64(Fin(slit_separation)),
     observer_mode |-> JBool(observer_mode)]

\* The "double-slit" arm of the handler.  uuid is the value of Uuid::new_v4()
\* and now that of chrono::Utc::now().  calls lists the invocations of
\* calculate_interference_pattern the handler made, with what each returned.
run_double_slit(id, params, uuid, now) ==
    LET wavelength == resolve_wavelength(params.parameters)
        slit_separation == resolve_slit_separation(params.parameters)
        observer_mode == resolve_observer_mode(params.parameters)
        pattern == calculate_interference_pattern(wavelength, slit_separation,
                                                  observer_mode)
    IN  [response |->
            Ok([id |-> uuid, simulation_id |-> id,
                data |-> result_data(pattern, wavelength, slit_separation,
                                     observer_mode),
                computed_at |-> now]),
         calls |-> << [wavelength_nm |-> wavelength,
                       slit_separation_mm |-> slit_separation,
                       observer_mode |-> observer_mode,
                       returned |-> pattern] >>]

\* run_simulation without its catch-all arm: every id runs the double-slit arm
run_simulation_no_match(id, params, uuid, now) == run_double_slit(id, params, uuid, now)

\* match id.as_str() { "double-slit" => .., _ => Err(StatusCode::NOT_FOUND) }
run_simulation(id, params, uuid, now) ==
    IF id = "double-slit"
    THEN run_double_slit(id, params, uuid, now)
    ELSE [response |-> Err(NOT_FOUND), calls |-> << >>]

----------------------------------------------------------------------------
(* The server: requests are routed to the handlers, one response each.     *)

\* requests a behaviour serves
MaxRequests == 2

Ids == {"double-slit", "quantum-tunneling", "unknown-id"}
Uuids == {"uuid-1", "uuid-2"}
Keys == {"wavelength", "slit_separation", "observer_mode"}

\* a JSON object from the values given for its keys; Absent leaves the key out
Absent == [t |-> "absent", n |-> 0, b |-> FALSE]
Object(w, s, o) ==
    LET given == [k \in Keys |-> CASE k = "wavelength" -> w
                                   [] k = "slit_separation" -> s
                                   [] k = "observer_mode" -> o]
    IN  [k \in {j \in Keys : given[j] # Absent} |-> given[k]]

\* parameter objects of the server's run requests
ServerObjects ==
    { Object(Absent, Absent, Absent),
      Object(JNumber(550), JNumber(10), JBool(FALSE)),
      Object(JString, Absent, JBool(TRUE)) }

\* parameter objects the kernel is exercised on
WavelengthValues ==
    {Absent, JNumber(0), JNumber(400), JNumber(550), JNumber(700),
     JString, JNull, JArray, JObject, JBool(TRUE)}
SlitSeparationValues ==
    {Absent, JNumber(-10), JNumber(1), JNumber(10), JNumber(100),
     JString, JNull, JBool(FALSE)}
ObserverModeValues ==
    {Absent, JBool(TRUE), JBool(FALSE), JNumber(1), JString, JArray, JObject}
KernelObjects ==
    { Object(w, s, o) : w \in WavelengthValues, s \in SlitSeparationValues,
                        o \in ObserverModeValues }

Request(op, id, parameters) == [op |-> op, id |-> id, parameters |-> parameters]
NoRequest == Request("none", "", << >>)

Init == pending = NoRequest /\ log = << >>

\* GET /simulations
ReceiveList ==
    /\ pending = NoRequest
    /\ Len(log) < MaxRequests
    /\ pending' = Request("list", "", << >>)
    /\ UNCHANGED log

\* GET /simulations/:id, Path(id)
ReceiveGet ==
    /\ pending = NoRequest
    /\ Len(log) < MaxRequests
    /\ \E id \in Ids : pending' = Request("get", id, << >>)
    /\ UNCHANGED log

\* POST /simulations/:id/run, Path(id) and Json(params)
ReceiveRun ==
    /\ pending = NoRequest
    /\ Len(log) < MaxRequests
    /\ \E id \in Ids, parameters \in ServerObjects :
          pending' = Request("run", id, parameters)
    /\ UNCHANGED log

Answer(out) ==
    /\ log' = Append(log, [req |-> pending, resp |-> out.response, calls |-> out.calls])
    /\ pending' = NoRequest

ListSimulations ==
    /\ pending.op = "list"
    /\ Answer(list_simulations)

GetSimulation ==
    /\ pending.op = "get"
    /\ Answer(get_simulation(pending.id))

RunSimulation ==
    /\ pending.op = "run"
    /\ \E uuid \in Uuids :
          Answer(run_simulation(pending.id, pending, uuid, Len(log)))

Next ==
    \/ ReceiveList
    \/ ReceiveGet
    \/ ReceiveRun
    \/ ListSimulations
    \/ GetSimulation
    \/ RunSimulation

Spec == Init /\ [][Next]_vars

\* The kernel on its own: one run request of the double-slit simulation, its
\* parameter object drawn from KernelObjects, answered by the handler.
KernelInit ==
    /\ log = << >>
    /\ \E parameters \in KernelObjects :
          pending = Request("run", "double-slit", parameters)

KernelNext == RunSimulation

KernelSpec == KernelInit /\ [][KernelNext]_vars

----------------------------------------------------------------------------
(* Properties of the server *)

Idx == 1..Len(log)

IsRun(e) == e.req.op = "run"
IsGet(e) == e.req.op = "get"
IsList(e) == e.req.op = "list"
Succeeded(e) == e.resp.status = "OK"

\* C1: every get_simulation and every run_simulation of an id other than
\* "double-slit" is answered NOT_FOUND, and the handler made no call of
\* calculate_interference_pattern on the way (no pattern, no SimulationResult).
C1_UnknownIdNotFound ==
    \A i \in Idx :
        ((IsGet(log[i]) \/ IsRun(log[i])) /\ log[i].req.id # "double-slit") =>
            /\ log[i].resp.status = NOT_FOUND
            /\ log[i].calls = << >>

C1_Witness ==
    \E i, j \in Idx :
        /\ IsGet(log[i]) /\ log[i].req.id = "unknown-id"
        /\ log[i].resp.status = NOT_FOUND
        /\ IsRun(log[j]) /\ log[j].req.id = "unknown-id"
        /\ log[j].req.parameters # << >>
        /\ log[j].resp.status = NOT_FOUND

\* the ids of a catalog, in its order
CatalogIds(body) == [a \in DOMAIN body |-> body[a].id]

\* C2: list_simulations always succeeds; every call returns the same catalog,
\* double-slit, quantum-tunneling, hydrogen-atom in this order; no id occurs
\* twice in it, and every id that get_simulation or run_simulation accepted
\* occurs in it exactly once.
C2_CatalogFixed ==
    \A i \in Idx :
        IsList(log[i]) =>
            /\ Succeeded(log[i])
            /\ CatalogIds(log[i].resp.body) =
                   << "double-slit", "quantum-tunneling", "hydrogen-atom" >>
            /\ \A j \in Idx : IsList(log[j]) => log[j].resp.body = log[i].resp.body
            /\ \A a, b \in DOMAIN log[i].resp.body :
                   log[i].resp.body[a].id = log[i].resp.body[b].id => a = b
            /\ \A j \in Idx :
                   ((IsGet(log[j]) \/ IsRun(log[j])) /\ Succeeded(log[j])) =>
                       Cardinality({a \in DOMAIN log[i].resp.body :
                                       log[i].resp.body[a].id = log[j].req.id}) = 1

C2_Witness ==
    \E i, j \in Idx :
        /\ IsList(log[i]) /\ Succeeded(log[i])
        /\ IsRun(log[j]) /\ Succeeded(log[j])

\* C10: every id of the catalog is accepted by get_simulation, whose details
\* carry that id, and by run_simulation; the two accept the same ids.
C10_ListedIdsAccepted ==
    /\ \A i, j \in Idx :
           (/\ IsList(log[i])
            /\ IsGet(log[j]) \/ IsRun(log[j])
            /\ \E a \in DOMAIN log[i].resp.body :
                   log[i].resp.body[a].id = log[j].req.id) =>
               /\ Succeeded(log[j])
               /\ IsGet(log[j]) => log[j].resp.body.id = log[j].req.id
    /\ \A i, j \in Idx :
           (IsGet(log[i]) /\ IsRun(log[j]) /\ log[i].req.id = log[j].req.id) =>
               (Succeeded(log[i]) <=> Succeeded(log[j]))

Given(parameters, key, t) == key \in DOMAIN parameters /\ parameters[key].t = t

\* the argument of a call of calculate_interference_pattern that a key
\* resolves to, a toggle as the f64 of the schema (false is 0.0, true is 1.0)
Used(call, key) ==
    CASE key = "wavelength" -> call.wavelength_nm
      [] key = "slit_separation" -> call.slit_separation_mm
      [] key = "observer_mode" -> IF call.observer_mode THEN 1 ELSE 0

\* the JSON type run_simulation accepts for a key
Accepted(key) == IF key = "observer_mode" THEN "bool" ELSE "number"

\* C7: the parameters that get_simulation("double-slit") returns name every key
\* run_simulation reads; the value run_simulation used for a key that was
\* missing or malformed is the default of the schema entry of that name; a
\* default lies within [min, max] where both are declared; only sliders
\* declare min, max or step.
C7_SchemaAgreesWithEngine ==
    \A i \in Idx :
        (IsGet(log[i]) /\ Succeeded(log[i])) =>
            LET schema == log[i].resp.body.parameters
            IN  /\ \A key \in Keys : \E a \in DOMAIN schema : schema[a].name = key
                /\ \A a \in DOMAIN schema :
                       /\ schema[a].name \in Keys
                       /\ (schema[a].min.some /\ schema[a].max.some) =>
                              /\ schema[a].min.v <= schema[a].default
                              /\ schema[a].default <= schema[a].max.v
                       /\ schema[a].param_type # "slider" =>
                              /\ ~schema[a].min.some
                              /\ ~schema[a].max.some
                              /\ ~schema[a].step.some
                /\ \A j \in Idx :
                       (IsRun(log[j]) /\ Succeeded(log[j])) =>
                           \A a \in DOMAIN schema :
                               ~Given(log[j].req.parameters, schema[a].name,
                                      Accepted(schema[a].name)) =>
                                   Used(log[j].calls[1], schema[a].name) =
                                       schema[a].default

C7_Witness ==
    \E i, j \in Idx :
        /\ IsGet(log[i]) /\ Succeeded(log[i])
        /\ IsRun(log[j]) /\ Succeeded(log[j])
        /\ log[j].req.parameters = << >>
        /\ log[j].calls[1].wavelength_nm = 550
        /\ log[j].calls[1].slit_separation_mm = 10
        /\ ~log[j].calls[1].observer_mode

----------------------------------------------------------------------------
(* Properties of run_simulation("double-slit", ..) and of the kernel *)

\* C3: a double-slit run always succeeds; each argument of the kernel is the
\* value of its key when that is a JSON number (wavelength, slit_separation)
\* or a JSON boolean (observer_mode), and otherwise, the key missing or of
\* any other JSON type, the default 550.0, 0.1 or false; the run of the
\* empty object returns the data of the run that names the three defaults.
C3_DefaultsSubstituted ==
    \A i \in Idx :
        (IsRun(log[i]) /\ log[i].req.id = "double-slit") =>
            LET given == log[i].req.parameters
                call == log[i].calls[1]
            IN  /\ Succeeded(log[i])
                /\ Len(log[i].calls) = 1
                /\ call.wavelength_nm =
                       IF Given(given, "wavelength", "number")
                       THEN given["wavelength"].n ELSE 550
                /\ call.slit_separation_mm =
                       IF Given(given, "slit_separation", "number")
                       THEN given["slit_separation"].n ELSE 10
                /\ call.observer_mode =
                       IF Given(given, "observer_mode", "bool")
                       THEN given["observer_mode"].b ELSE FALSE
                /\ given = << >> =>
                       log[i].resp.body.data =
                           run_simulation(
                               "double-slit",
                               [parameters |->
                                   Object(JNumber(550), JNumber(10), JBool(FALSE))],
                               "uuid-1", 0).response.body.data

C3_Witness ==
    \E i \in Idx :
        /\ IsRun(log[i]) /\ Succeeded(log[i])
        /\ Given(log[i].req.parameters, "wavelength", "bool")
        /\ Given(log[i].req.parameters, "slit_separation", "number")
        /\ Given(log[i].req.parameters, "observer_mode", "number")
        /\ log[i].calls[1].wavelength_nm = 550
        /\ log[i].calls[1].slit_separation_mm = 100
        /\ ~log[i].calls[1].observer_mode

\* C4: the pattern of every double-slit run has exactly 200 samples, each a
\* finite number that is not negative, whatever numbers the object gives.
C4_SamplesFiniteNonNegative ==
    \A i \in Idx :
        (IsRun(log[i]) /\ Succeeded(log[i])) =>
            LET returned == log[i].calls[1].returned
            IN  /\ Len(returned) = 200
                /\ \A k \in DOMAIN returned :
                       is_finite(returned[k]) /\ returned[k].v >= 0

\* C6: a successful run carries the requested id as simulation_id, and its
\* data carries the pattern that calculate_interference_pattern returned and
\* the three arguments of that call; for a key that was missing or malformed
\* the echo is the default.
C6_EchoIsWhatWasUsed ==
    \A i \in Idx :
        (IsRun(log[i]) /\ Succeeded(log[i])) =>
            LET given == log[i].req.parameters
                data == log[i].resp.body.data
                call == log[i].calls[1]
            IN  /\ log[i].resp.body.simulation_id = log[i].req.id
                /\ Len(log[i].calls) = 1
                /\ data.wavelength = JNumber(call.wavelength_nm)
                /\ data.slit_separation = JNumber(call.slit_separation_mm)
                /\ data.observer_mode = JBool(call.observer_mode)
                /\ DOMAIN data.pattern = DOMAIN call.returned
                /\ \A k \in DOMAIN call.returned :
                       data.pattern[k] =
                           IF call.returned[k].cls = "finite"
                           THEN JNumber(call.returned[k].v) ELSE JNull
                /\ ~Given(given, "wavelength", "number") =>
                       data.wavelength = JNumber(550)
                /\ ~Given(given, "slit_separation", "number") =>
                       data.slit_separation = JNumber(10)
                /\ ~Given(given, "observer_mode", "bool") =>
                       data.observer_mode = JBool(FALSE)

C6_Witness ==
    \E i \in Idx :
        /\ IsRun(log[i]) /\ Succeeded(log[i])
        /\ Given(log[i].req.parameters, "wavelength", "string")
        /\ Given(log[i].req.parameters, "slit_separation", "number")
        /\ "observer_mode" \notin DOMAIN log[i].req.parameters
        /\ log[i].resp.body.data.wavelength = JNumber(550)
        /\ log[i].resp.body.data.slit_separation = JNumber(1)
        /\ log[i].resp.body.data.observer_mode = JBool(FALSE)

\* a wave run whose sliders lie in their declared ranges
WaveInRange(e) ==
    /\ IsRun(e) /\ Succeeded(e)
    /\ ~e.calls[1].observer_mode
    /\ 400 <= e.calls[1].wavelength_nm /\ e.calls[1].wavelength_nm <= 700
    /\ 1 <= e.calls[1].slit_separation_mm /\ e.calls[1].slit_separation_mm <= 100

\* two intensities within 0.1 of each other
NearlyEqual(f, g) ==
    is_finite(f) /\ is_finite(g) /\ 10 * Abs(f.v - g.v) <= ONE

\* sample i of a pattern
Sample(returned, i) == returned[i + 1]

\* C8 as stated: with observer_mode false and the sliders in range, sample i
\* and sample 199 - i are nearly equal for every i in 0..199.
C8_MirrorAboutMidpoint ==
    \A n \in Idx :
        WaveInRange(log[n]) =>
            \A i \in 0..199 :
                NearlyEqual(Sample(log[n].calls[1].returned, i),
                            Sample(log[n].calls[1].returned, 199 - i))

\* C8, amended: with observer_mode false and the sliders in range, the
\* pattern is symmetric about sample 100, the sample at x = 0: sample i and
\* sample 200 - i are equal for every i in 1..199.
C8_SymmetricAboutCentre ==
    \A n \in Idx :
        WaveInRange(log[n]) =>
            \A i \in 1..199 :
                Sample(log[n].calls[1].returned, i) =
                    Sample(log[n].calls[1].returned, 200 - i)

C8_Witness ==
    \E n \in Idx :
        /\ WaveInRange(log[n])
        /\ log[n].calls[1].wavelength_nm = 400
        /\ log[n].calls[1].slit_separation_mm = 100
        /\ Sample(log[n].calls[1].returned, 99) = Sample(log[n].calls[1].returned, 101)
        /\ ~NearlyEqual(Sample(log[n].calls[1].returned, 99),
                        Sample(log[n].calls[1].returned, 100))

\* C9: for every wavelength and slit_separation the centre sample (index
\* 100) differs between the two modes: it is 1 with observer_mode false, and
\* a finite number below 1 with observer_mode true.
C9_CentreDiffers ==
    \A n \in Idx :
        (IsRun(log[n]) /\ Succeeded(log[n])) =>
            LET call == log[n].calls[1]
                centre == Sample(call.returned, 100)
                other == intensity(100, call.wavelength_nm,
                                   call.slit_separation_mm * NM_PER_UNIT,
                                   ~call.observer_mode)
            IN  /\ centre # other
                /\ ~call.observer_mode => centre = Fin(ONE)
                /\ call.observer_mode => is_finite(centre) /\ centre.v < ONE

====
